---- MODULE Spec2Model ----
(***************************************************************************)
(* Model of the InterviewSession component                                 *)
(* (src/app/components/InterviewSession.tsx).                              *)
(*                                                                         *)
(* The component is a set of React state cells plus handlers.  A handler   *)
(* started by a user event reads the state of the latest render; the part  *)
(* of a handler that runs after an await, in a timer or in a DOM listener  *)
(* registered earlier reads the values its closure captured when the       *)
(* handler was created.  Each asynchronous continuation is therefore a     *)
(* record in a pool that carries the captured values it reads later.       *)
(* One action is one run of a handler from an event to its next            *)
(* suspension point (await, timer, event listener).                        *)
(*                                                                         *)
(* Two kinds of DOM event are dispatched by a task queued at the call that *)
(* causes them, ahead of any later input, timer or network response: the   *)
(* recorder's 'stop' event after MediaRecorder.stop(), and the end/error   *)
(* event of an utterance removed by speechSynthesis.cancel().  Their       *)
(* listeners run in the step of the call that causes them, after the rest  *)
(* of that step.                                                           *)
(***************************************************************************)
EXTENDS Integers, Sequences, FiniteSets, TLC

VARIABLES
    sessionType,        \* prop sessionType
    createReturnsId,    \* environment: /api/create-interview answers with an id
    messages,           \* useState: messages
    isListening,        \* useState
    userInput,          \* useState
    isLoading,          \* useState
    isThinking,         \* useState
    isSpeaking,         \* useState
    isConnected,        \* useState
    transcript,         \* useState
    audioRecorder,      \* useState: 0 is null, else an index into recorders
    isEndingInterview,  \* useState
    liveTranscript,     \* useState
    speechRate,         \* useState
    recorders,          \* MediaRecorder objects created so far, with their stream
    recognizing,        \* the streaming recognizer is started
    results,            \* the recognizer's result list (event.results)
    synth,              \* window.speechSynthesis: queue of utterances, head speaking
    sessionStored,      \* sessionStorage 'interviewSession' id: none, local, server
    setups,             \* setupAudioRecording calls awaiting getUserMedia
    startTimers,        \* pending setTimeout(startInterview, 1000), oldest first
    startFetches,       \* startInterview runs awaiting /api/create-interview
    introTimers,        \* pending 800 ms introduction timers, oldest first
    transcribing,       \* handleRecordingStop calls awaiting transcribeAudio
    sends,              \* handleSendMessage calls past their user message
    ends,               \* handleEndInterview calls in flight
    voiceTests,         \* testVoice calls awaiting forceVoiceInit (their rate)
    onEndLog,           \* the feedback objects onEnd was invoked with
    feedbackRequests,   \* number of generateInterviewFeedback calls made
    opsUsed             \* number of user operations started so far

vars == <<sessionType, createReturnsId, messages, isListening, userInput,
          isLoading, isThinking, isSpeaking, isConnected, transcript,
          audioRecorder, isEndingInterview, liveTranscript, speechRate,
          recorders, recognizing, results, synth, sessionStored, setups,
          startTimers, startFetches, introTimers, transcribing, sends, ends,
          voiceTests, onEndLog, feedbackRequests, opsUsed>>

\* startTimers, startFetches, introTimers and voiceTests hold, for each
\* pending run, the speechRate of the render whose handler it is.

\* Bound: user operations (connect, voice test, capture, accepted submit, end)
\* started in one behaviour.
MaxOps == 3

\* ------------------------------------------------------------------ texts
\* A text is a sequence of one-character strings; " " is whitespace.
\* the prop topic
Topic == <<"G", "r", "a", "p", "h", "s">>

\* the default of the prop (line 27)
DefaultSessionType == "mock"

\* the session types the component distinguishes (lines 20, 49-57)
SessionTypes == {"mock", "topic", "qa", "language"}

\* texts typed into the textarea: whitespace only, and with a letter
TypedTexts == {<<" ">>, <<" ", "t">>}

\* the segments the streaming recognizer hears in one capture, in order
SegmentTexts == << <<"l", " ">>, <<"m">> >>

\* the initial speech rate (line 42)
DefaultSpeechRate == "1.0"

\* rates both selectors offer (lines 924-928, 1092-1096)
SpeechRates == {"1.0", "2.0"}

\* texts transcribeAudio resolves with: empty, whitespace only, a word
\* followed by whitespace
RecTexts == {<<>>, <<" ">>, <<"r", " ">>}

RECURSIVE TrimLeft(_)
TrimLeft(s) ==
    IF s = <<>> THEN <<>>
    ELSE IF Head(s) = " " THEN TrimLeft(Tail(s)) ELSE s

RECURSIVE TrimRight(_)
TrimRight(s) ==
    IF s = <<>> THEN <<>>
    ELSE IF s[Len(s)] = " " THEN TrimRight(SubSeq(s, 1, Len(s) - 1)) ELSE s

\* String.prototype.trim
Trim(s) == TrimRight(TrimLeft(s))

\* JavaScript truthiness of a string
Truthy(s) == s # <<>>

RemoveAt(s, i) == SubSeq(s, 1, i - 1) \o SubSeq(s, i + 1, Len(s))

\* --------------------------------------------------------------- messages
Msg(role, content) == [role |-> role, content |-> content]

WelcomeMessage == Msg("assistant", <<"welcome", sessionType>> \o Topic)

IntroMessage == Msg("assistant", <<"intro", sessionType>> \o Topic)

ReplyMessage == Msg("assistant", <<"reply">>)

ApologyText == <<"I'm sorry, I'm having trouble responding right now.">>

ErrorMessage == Msg("assistant", ApologyText)

UserCount(ms) == Cardinality({i \in 1..Len(ms) : ms[i].role = "user"})

AssistantCount(ms) == Cardinality({i \in 1..Len(ms) : ms[i].role = "assistant"})

ApologyCount(ms) == Cardinality({i \in 1..Len(ms) : ms[i] = ErrorMessage})

ReplyCount(ms) == Cardinality({i \in 1..Len(ms) : ms[i] = ReplyMessage})

\* --------------------------------------------------------------- feedback
ServerFeedback ==
    [summary |-> <<"server summary">>,
     strengths |-> << <<"s1">> >>,
     improvements |-> << <<"i1">> >>]

\* a fallback object with nothing under strengths
FallbackWithoutStrengths ==
    [summary |-> <<"You participated in this ", sessionType, " about ">>
                    \o Topic \o <<".">>,
     strengths |-> <<>>,
     improvements |-> << <<"Technical issues prevented detailed feedback">> >>]

\* fallbackFeedback (lines 718-730)
FallbackFeedback ==
    [summary |-> <<"You participated in this ", sessionType, " about ">>
                    \o Topic \o <<".">>,
     strengths |-> << <<"Engaged in the ", sessionType>>,
                      <<"Provided responses to questions">>,
                      <<"Completed the session">> >>,
     improvements |-> << <<"Technical issues prevented detailed feedback">>,
                         <<"Try another session with a different connection">>,
                         <<"Consider trying a different topic">> >>]

\* ------------------------------------------------------------------ Init
\* The state after the first render and its effects (lines 28-67), for a
\* session type among types, a create-interview service that answers with
\* an id or not (ids), and used operations of the budget spent.
Start(types, ids, used) ==
    /\ sessionType \in types
    /\ createReturnsId \in ids
    /\ messages = <<WelcomeMessage>>
    /\ isListening = FALSE
    /\ userInput = <<>>
    /\ isLoading = FALSE
    /\ isThinking = FALSE
    /\ isSpeaking = FALSE
    /\ isConnected = FALSE
    /\ transcript = <<>>
    /\ audioRecorder = 0
    /\ isEndingInterview = FALSE
    /\ liveTranscript = <<>>
    /\ speechRate = DefaultSpeechRate
    /\ recorders = <<>>
    /\ recognizing = FALSE
    /\ results = <<>>
    /\ synth = <<>>
    /\ sessionStored = "none"
    /\ setups = <<>>
    /\ startTimers = <<>>
    /\ startFetches = <<>>
    /\ introTimers = <<>>
    /\ transcribing = <<>>
    /\ sends = <<>>
    /\ ends = <<>>
    /\ voiceTests = <<>>
    /\ onEndLog = <<>>
    /\ feedbackRequests = 0
    /\ opsUsed = used

Init == Start({DefaultSessionType}, {FALSE}, 0)

\* The values of the current render that handlers created in it capture.
Closure ==
    [msgs |-> messages, live |-> liveTranscript, input |-> userInput,
     conn |-> isConnected, rate |-> speechRate]

\* a SpeechSynthesisUtterance with the rate it was given (lines 293-294,
\* 439-440, 775-776)
Utterance(what, rate) == [what |-> what, rate |-> rate]

\* isSpeaking once the end/error events of the utterances removed by
\* speechSynthesis.cancel() have run their setIsSpeaking(false) (lines
\* 310-318, 453-461, 788-797); flag is what the cancelling handler wrote.
AfterCancel(flag) == IF synth # <<>> THEN FALSE ELSE flag

\* ------------------------------------------------ connect (lines 177-202)
\* Connect button (lines 962-972): rendered while not connected.
ConnectClick ==
    /\ ~isConnected
    /\ opsUsed < MaxOps
    /\ setups' = Append(setups, Closure)
    /\ opsUsed' = opsUsed + 1
    /\ UNCHANGED <<sessionType, createReturnsId, messages, isListening,
                   userInput, isLoading, isThinking, isSpeaking, isConnected,
                   transcript, audioRecorder, isEndingInterview,
                   liveTranscript, speechRate, recorders, recognizing,
                   results, synth, sessionStored, startTimers, startFetches,
                   introTimers, transcribing, sends, ends, voiceTests,
                   onEndLog, feedbackRequests>>

\* getUserMedia resolved: the recorder holds the stream (lines 183-184), its
\* listeners are the handlers of the render in which Connect was clicked, and
\* so is the startInterview the timer will call, which reads that render's
\* speechRate.
SetupResolve(i) ==
    /\ recorders' = Append(recorders, [state |-> "inactive",
                                       closure |-> setups[i],
                                       stream |-> "live"])
    /\ audioRecorder' = Len(recorders) + 1
    /\ isConnected' = TRUE
    /\ startTimers' = Append(startTimers, setups[i].rate)
    /\ setups' = RemoveAt(setups, i)
    /\ UNCHANGED <<sessionType, createReturnsId, messages, isListening,
                   userInput, isLoading, isThinking, isSpeaking, transcript,
                   isEndingInterview, liveTranscript, speechRate, recognizing,
                   results, synth, sessionStored, startFetches, introTimers,
                   transcribing, sends, ends, voiceTests, onEndLog,
                   feedbackRequests, opsUsed>>

\* a catch block that gives up: not connected, no introduction scheduled
SetupRejectGivesUp(i) ==
    /\ setups' = RemoveAt(setups, i)
    /\ UNCHANGED <<sessionType, createReturnsId, messages, isListening,
                   userInput, isLoading, isThinking, isSpeaking, isConnected,
                   transcript, audioRecorder, isEndingInterview,
                   liveTranscript, speechRate, recorders, recognizing,
                   results, synth, sessionStored, startTimers, startFetches,
                   introTimers, transcribing, sends, ends, voiceTests,
                   onEndLog, feedbackRequests, opsUsed>>

\* no mediaDevices, or getUserMedia rejected
SetupReject(i) ==
    /\ isConnected' = TRUE
    /\ startTimers' = Append(startTimers, setups[i].rate)
    /\ setups' = RemoveAt(setups, i)
    /\ UNCHANGED <<sessionType, createReturnsId, messages, isListening,
                   userInput, isLoading, isThinking, isSpeaking, transcript,
                   audioRecorder, isEndingInterview, liveTranscript,
                   speechRate, recorders, recognizing, results, synth,
                   sessionStored, startFetches, introTimers, transcribing,
                   sends, ends, voiceTests, onEndLog, feedbackRequests,
                   opsUsed>>

\* ------------------------------------------ startInterview (lines 204-337)
\* a startInterview that sets the introduction as the only message
StartInterviewBeginReplacesMessages ==
    /\ startTimers # <<>>
    /\ startTimers' = Tail(startTimers)
    /\ isLoading' = TRUE
    /\ sessionStored' = "local"
    /\ messages' = <<IntroMessage>>
    /\ startFetches' = Append(startFetches, Head(startTimers))
    /\ UNCHANGED <<sessionType, createReturnsId, isListening, userInput,
                   isThinking, isSpeaking, isConnected, transcript,
                   audioRecorder, isEndingInterview, liveTranscript,
                   speechRate, recorders, recognizing, results, synth, setups,
                   introTimers, transcribing, sends, ends, voiceTests,
                   onEndLog, feedbackRequests, opsUsed>>

\* The 1000 ms timer fires: up to the await of /api/create-interview.
StartInterviewBegin ==
    /\ startTimers # <<>>
    /\ startTimers' = Tail(startTimers)
    /\ isLoading' = TRUE
    /\ sessionStored' = "local"
    /\ messages' = Append(messages, IntroMessage)
    /\ startFetches' = Append(startFetches, Head(startTimers))
    /\ UNCHANGED <<sessionType, createReturnsId, isListening, userInput,
                   isThinking, isSpeaking, isConnected, transcript,
                   audioRecorder, isEndingInterview, liveTranscript,
                   speechRate, recorders, recognizing, results, synth, setups,
                   introTimers, transcribing, sends, ends, voiceTests,
                   onEndLog, feedbackRequests, opsUsed>>

\* /api/create-interview settled: "id" (ok with an id) or "noid" (not ok, no
\* id, or rejected).  The 800 ms timer is set, finally clears isLoading.
StartFetchSettle(i, outcome) ==
    /\ outcome = "id" => createReturnsId
    /\ startFetches' = RemoveAt(startFetches, i)
    /\ sessionStored' = IF outcome = "id" THEN "server" ELSE sessionStored
    /\ introTimers' = Append(introTimers, startFetches[i])
    /\ isLoading' = FALSE
    /\ UNCHANGED <<sessionType, createReturnsId, messages, isListening,
                   userInput, isThinking, isSpeaking, isConnected, transcript,
                   audioRecorder, isEndingInterview, liveTranscript,
                   speechRate, recorders, recognizing, results, synth, setups,
                   startTimers, transcribing, sends, ends, voiceTests,
                   onEndLog, feedbackRequests, opsUsed>>

\* The 800 ms timer fired and forceVoiceInit resolved (lines 287-324):
\* the utterance is queued without cancelling what is playing.
IntroSpeak ==
    /\ introTimers # <<>>
    /\ introTimers' = Tail(introTimers)
    /\ isSpeaking' = TRUE
    /\ synth' = Append(synth, Utterance("intro", Head(introTimers)))
    /\ UNCHANGED <<sessionType, createReturnsId, messages, isListening,
                   userInput, isLoading, isThinking, isConnected, transcript,
                   audioRecorder, isEndingInterview, liveTranscript,
                   speechRate, recorders, recognizing, results, sessionStored,
                   setups, startTimers, startFetches, transcribing, sends,
                   ends, voiceTests, onEndLog, feedbackRequests, opsUsed>>

\* forceVoiceInit rejected (lines 325-328)
IntroSpeakFail ==
    /\ introTimers # <<>>
    /\ introTimers' = Tail(introTimers)
    /\ isSpeaking' = FALSE
    /\ UNCHANGED <<sessionType, createReturnsId, messages, isListening,
                   userInput, isLoading, isThinking, isConnected, transcript,
                   audioRecorder, isEndingInterview, liveTranscript,
                   speechRate, recorders, recognizing, results, synth,
                   sessionStored, setups, startTimers, startFetches,
                   transcribing, sends, ends, voiceTests, onEndLog,
                   feedbackRequests, opsUsed>>

\* ------------------------------------------------------- speech engine
\* utterance.onend / onerror of the utterance being spoken
UtteranceEnd ==
    /\ synth # <<>>
    /\ synth' = Tail(synth)
    /\ isSpeaking' = FALSE
    /\ UNCHANGED <<sessionType, createReturnsId, messages, isListening,
                   userInput, isLoading, isThinking, isConnected, transcript,
                   audioRecorder, isEndingInterview, liveTranscript,
                   speechRate, recorders, recognizing, results, sessionStored,
                   setups, startTimers, startFetches, introTimers,
                   transcribing, sends, ends, voiceTests, onEndLog,
                   feedbackRequests, opsUsed>>

\* a stopSpeaking that cancels the speech and leaves the flag as it is
StopSpeakingWaitsForEnd ==
    /\ isConnected \/ isSpeaking
    /\ IF isSpeaking
       THEN /\ synth' = <<>>
            /\ UNCHANGED isSpeaking
       ELSE UNCHANGED <<synth, isSpeaking>>
    /\ UNCHANGED <<sessionType, createReturnsId, messages, isListening,
                   userInput, isLoading, isThinking, isConnected, transcript,
                   audioRecorder, isEndingInterview, liveTranscript,
                   speechRate, recorders, recognizing, results, sessionStored,
                   setups, startTimers, startFetches, introTimers,
                   transcribing, sends, ends, voiceTests, onEndLog,
                   feedbackRequests, opsUsed>>

\* A click on a stop-speaking button: the header button (lines 907-915,
\* rendered when connected, disabled unless isSpeaking) or the Skip buttons
\* (lines 1075-1084 and 1123-1135, rendered while isSpeaking).  stopSpeaking
\* (lines 481-486) acts only if isSpeaking: stopSpeech() cancels the speech
\* and the flag is cleared.  On the disabled button nothing happens.
StopSpeaking ==
    /\ isConnected \/ isSpeaking
    /\ IF isSpeaking
       THEN /\ synth' = <<>>
            /\ isSpeaking' = FALSE
       ELSE UNCHANGED <<synth, isSpeaking>>
    /\ UNCHANGED <<sessionType, createReturnsId, messages, isListening,
                   userInput, isLoading, isThinking, isConnected, transcript,
                   audioRecorder, isEndingInterview, liveTranscript,
                   speechRate, recorders, recognizing, results, sessionStored,
                   setups, startTimers, startFetches, introTimers,
                   transcribing, sends, ends, voiceTests, onEndLog,
                   feedbackRequests, opsUsed>>

\* testVoice (lines 763-813) up to the await of forceVoiceInit; its button
\* is rendered while not connected and disabled while isSpeaking
TestVoiceClick ==
    /\ ~isConnected
    /\ ~isSpeaking
    /\ opsUsed < MaxOps
    /\ isSpeaking' = TRUE
    /\ voiceTests' = Append(voiceTests, speechRate)
    /\ opsUsed' = opsUsed + 1
    /\ UNCHANGED <<sessionType, createReturnsId, messages, isListening,
                   userInput, isLoading, isThinking, isConnected, transcript,
                   audioRecorder, isEndingInterview, liveTranscript,
                   speechRate, recorders, recognizing, results, synth,
                   sessionStored, setups, startTimers, startFetches,
                   introTimers, transcribing, sends, ends, onEndLog,
                   feedbackRequests>>

\* forceVoiceInit resolved: cancel, then speak (lines 799-806)
TestVoiceSpeak(i) ==
    /\ voiceTests' = RemoveAt(voiceTests, i)
    /\ synth' = <<Utterance("test", voiceTests[i])>>
    /\ isSpeaking' = AfterCancel(isSpeaking)
    /\ UNCHANGED <<sessionType, createReturnsId, messages, isListening,
                   userInput, isLoading, isThinking, isConnected, transcript,
                   audioRecorder, isEndingInterview, liveTranscript,
                   speechRate, recorders, recognizing, results, sessionStored,
                   setups, startTimers, startFetches, introTimers,
                   transcribing, sends, ends, onEndLog, feedbackRequests,
                   opsUsed>>

\* forceVoiceInit rejected (lines 808-812)
TestVoiceFail(i) ==
    /\ voiceTests' = RemoveAt(voiceTests, i)
    /\ isSpeaking' = FALSE
    /\ UNCHANGED <<sessionType, createReturnsId, messages, isListening,
                   userInput, isLoading, isThinking, isConnected, transcript,
                   audioRecorder, isEndingInterview, liveTranscript,
                   speechRate, recorders, recognizing, results, synth,
                   sessionStored, setups, startTimers, startFetches,
                   introTimers, transcribing, sends, ends, onEndLog,
                   feedbackRequests, opsUsed>>

\* handleSpeechRateChange (lines 417-423), from the selector in the header
\* (lines 919-929, rendered when connected) or the one beside the Skip button
\* (lines 1087-1097, rendered while isSpeaking)
SpeechRateChange(r) ==
    /\ isConnected \/ isSpeaking
    /\ r # speechRate
    /\ speechRate' = r
    /\ UNCHANGED <<sessionType, createReturnsId, messages, isListening,
                   userInput, isLoading, isThinking, isSpeaking, isConnected,
                   transcript, audioRecorder, isEndingInterview,
                   liveTranscript, recorders, recognizing, results, synth,
                   sessionStored, setups, startTimers, startFetches,
                   introTimers, transcribing, sends, ends, voiceTests,
                   onEndLog, feedbackRequests, opsUsed>>

\* ------------------------------------------------------------ capture
\* Microphone button (lines 1023-1028): rendered when connected.
MicButtonDisabled == isLoading \/ audioRecorder = 0 \/ isSpeaking

\* Textarea (lines 1013-1021): rendered when connected.
TextareaDisabled == isLoading \/ isListening \/ isSpeaking

\* startListening goes on past its two early returns (lines 370-376)
StartListeningProceeds == audioRecorder # 0 /\ ~isSpeaking

\* startListening (lines 369-394).  MediaRecorder.start() throws when the
\* recorder is already recording; the state updates before it still apply.
\* recognition.start() begins a new result list, and throws (caught) when
\* the recognizer is already started.
StartListeningClick ==
    /\ isConnected
    /\ ~isListening
    /\ ~MicButtonDisabled
    /\ opsUsed < MaxOps
    /\ opsUsed' = opsUsed + 1
    /\ IF StartListeningProceeds
       THEN /\ isListening' = TRUE
            /\ transcript' = <<>>
            /\ liveTranscript' = <<>>
            /\ recognizing' = TRUE
            /\ results' = IF recognizing THEN results ELSE <<>>
            /\ recorders' = [recorders EXCEPT ![audioRecorder].state = "recording"]
       ELSE UNCHANGED <<isListening, transcript, liveTranscript, recognizing,
                        results, recorders>>
    /\ UNCHANGED <<sessionType, createReturnsId, messages, userInput,
                   isLoading, isThinking, isSpeaking, isConnected,
                   audioRecorder, isEndingInterview, speechRate, synth,
                   sessionStored, setups, startTimers, startFetches,
                   introTimers, transcribing, sends, ends, voiceTests,
                   onEndLog, feedbackRequests>>

\* audioRecorder.stop() on a recording recorder (lines 407-409, 670-672) and
\* the 'stop' event it causes: handleRecordingStop (lines 345-351) of the
\* render in which the recorder was set up, up to the await of
\* transcribeAudio.  ld is isLoading as the calling handler leaves it.
RecorderStops(ld) ==
    IF audioRecorder # 0 /\ recorders[audioRecorder].state = "recording"
    THEN /\ recorders' = [recorders EXCEPT ![audioRecorder].state = "inactive"]
         /\ isLoading' = TRUE
         /\ transcribing' = Append(transcribing, recorders[audioRecorder].closure)
    ELSE /\ isLoading' = ld
         /\ UNCHANGED <<recorders, transcribing>>

\* stopListening (lines 396-414)
StopListeningClick ==
    /\ isConnected
    /\ isListening
    /\ ~MicButtonDisabled
    /\ recognizing' = FALSE
    /\ results' = <<>>
    /\ RecorderStops(isLoading)
    /\ isListening' = FALSE
    /\ UNCHANGED <<sessionType, createReturnsId, messages, userInput,
                   isThinking, isSpeaking, isConnected, transcript,
                   audioRecorder, isEndingInterview, liveTranscript,
                   speechRate, synth, sessionStored, setups, startTimers,
                   startFetches, introTimers, sends, ends, voiceTests,
                   onEndLog, feedbackRequests, opsUsed>>

\* the loop of lines 135-142: the transcripts of the results from index i
\* on whose isFinal is final, concatenated
RECURSIVE Collect(_, _, _)
Collect(res, i, final) ==
    IF i > Len(res) THEN <<>>
    ELSE (IF res[i].isFinal = final THEN res[i].transcript ELSE <<>>)
         \o Collect(res, i + 1, final)

\* what recognition.onresult (lines 131-149) leaves in liveTranscript for an
\* event with result list res and resultIndex idx
OnResult(res, idx) ==
    IF Truthy(Collect(res, idx, TRUE)) THEN Collect(res, idx, TRUE)
    ELSE IF Truthy(Collect(res, idx, FALSE)) THEN Collect(res, idx, FALSE)
    ELSE liveTranscript

\* The recognizer delivers a result event: an interim result for the next
\* segment, or the final result of the segment (replacing its interim
\* result if there is one).  resultIndex is the index of that result.
LiveResult(final) ==
    /\ recognizing
    /\ LET pending == results # <<>> /\ ~results[Len(results)].isFinal
           idx == IF pending THEN Len(results) ELSE Len(results) + 1
       IN /\ idx <= Len(SegmentTexts)
          /\ ~final => ~pending
          /\ results' = SubSeq(results, 1, idx - 1)
                           \o <<[transcript |-> SegmentTexts[idx],
                                 isFinal |-> final]>>
          /\ liveTranscript' = OnResult(results', idx)
    /\ UNCHANGED <<sessionType, createReturnsId, messages, isListening,
                   userInput, isLoading, isThinking, isSpeaking, isConnected,
                   transcript, audioRecorder, isEndingInterview, speechRate,
                   recorders, recognizing, synth, sessionStored, setups,
                   startTimers, startFetches, introTimers, transcribing,
                   sends, ends, voiceTests, onEndLog, feedbackRequests,
                   opsUsed>>

\* textarea onChange (line 1015)
TypeInput(t) ==
    /\ isConnected
    /\ ~TextareaDisabled
    /\ t # userInput
    /\ userInput' = t
    /\ UNCHANGED <<sessionType, createReturnsId, messages, isListening,
                   isLoading, isThinking, isSpeaking, isConnected, transcript,
                   audioRecorder, isEndingInterview, liveTranscript,
                   speechRate, recorders, recognizing, results, synth,
                   sessionStored, setups, startTimers, startFetches,
                   introTimers, transcribing, sends, ends, voiceTests,
                   onEndLog, feedbackRequests, opsUsed>>

\* ------------------------------------- handleSendMessage (lines 488-650)
\* c is the closure of the render the handler belongs to, t the argument
\* transcribedText (the empty text when the argument is absent).
TextToSend(c, t) ==
    IF Truthy(c.live) THEN c.live
    ELSE IF Truthy(t) THEN t
    ELSE c.input

\* a line 500 that tests the chosen text without trimming it
SendProceedsNoTrim(c, t) == TextToSend(c, t) # <<>>

\* not the early return of line 500
SendProceeds(c, t) == Trim(TextToSend(c, t)) # <<>>

\* a user message that carries the chosen text as it is
NewUserMessageUntrimmed(c, t) == Msg("user", TextToSend(c, t))

NewUserMessage(c, t) == Msg("user", Trim(TextToSend(c, t)))

\* aiMessages (lines 546-555): the messages of the handler's render, then
\* the new user message
AiMessages(c, t) == Append(c.msgs, NewUserMessage(c, t))

\* the cap of the history window (line 866)
WindowSize == 15

\* a window that keeps the oldest messages
OldestMessages(h) == SubSeq(h, 1, IF Len(h) > WindowSize THEN WindowSize ELSE Len(h))

\* userMessages.slice(-15) (line 866): the last WindowSize messages, or all
\* of them when there are fewer
RecentMessages(h) ==
    SubSeq(h, IF Len(h) > WindowSize THEN Len(h) - WindowSize + 1 ELSE 1, Len(h))

\* The messages in the request generateInterviewResponse (lib/client-ai)
\* sends for the history h it is given: the most recent bounded window of
\* the history.
ReplyRequest(h) == RecentMessages(h)

\* a handler that read the id sid from sessionStorage makes its
\* /api/save-message requests (lines 517-518, 597): any id is truthy
SavesMessages(sid) == sid # "none"

\* a handleSendMessage that leaves the live transcript as it is
SendMessageKeepsLiveTranscript(c, t, via, in, tr, ld) ==
    IF SendProceeds(c, t)
    THEN /\ messages' = Append(messages, NewUserMessage(c, t))
         /\ userInput' = <<>>
         /\ transcript' = <<>>
         /\ liveTranscript' = liveTranscript
         /\ isLoading' = TRUE
         /\ isThinking' = TRUE
         /\ sends' = Append(sends, [phase |-> "reply", conn |-> c.conn,
                                    via |-> via, sid |-> sessionStored,
                                    rate |-> c.rate,
                                    history |-> AiMessages(c, t)])
    ELSE /\ userInput' = in
         /\ transcript' = tr
         /\ isLoading' = ld
         /\ UNCHANGED <<messages, liveTranscript, isThinking, sends>>

\* handleSendMessage up to the await of generateInterviewResponse.  in, tr and
\* ld are the values userInput, transcript and isLoading have when it is
\* called (its caller may have set them in the same batch).
SendMessage(c, t, via, in, tr, ld) ==
    IF SendProceeds(c, t)
    THEN /\ messages' = Append(messages, NewUserMessage(c, t))
         /\ userInput' = <<>>
         /\ transcript' = <<>>
         /\ liveTranscript' = <<>>
         /\ isLoading' = TRUE
         /\ isThinking' = TRUE
         /\ sends' = Append(sends, [phase |-> "reply", conn |-> c.conn,
                                    via |-> via, sid |-> sessionStored,
                                    rate |-> c.rate,
                                    history |-> AiMessages(c, t)])
    ELSE /\ userInput' = in
         /\ transcript' = tr
         /\ isLoading' = ld
         /\ UNCHANGED <<messages, liveTranscript, isThinking, sends>>

\* handleKeyPress (lines 652-657): Enter in the enabled textarea
KeySubmit ==
    /\ isConnected
    /\ ~TextareaDisabled
    /\ SendProceeds(Closure, <<>>) => opsUsed < MaxOps
    /\ SendMessage(Closure, <<>>, "typed", userInput, transcript, isLoading)
    /\ opsUsed' = IF SendProceeds(Closure, <<>>) THEN opsUsed + 1 ELSE opsUsed
    /\ UNCHANGED <<sessionType, createReturnsId, isListening, isSpeaking,
                   isConnected, audioRecorder, isEndingInterview, speechRate,
                   recorders, recognizing, results, synth, sessionStored,
                   setups, startTimers, startFetches, introTimers,
                   transcribing, ends, voiceTests, onEndLog, feedbackRequests>>

\* ------------------------------------ handleRecordingStop (lines 352-367)
\* transcribeAudio resolved with t (lines 352-361)
TranscribeSettle(i, t) ==
    /\ transcribing' = RemoveAt(transcribing, i)
    /\ IF Truthy(t)
       THEN SendMessage(transcribing[i], t, "voice", t, t, FALSE)
       ELSE /\ userInput' = <<>>
            /\ isLoading' = FALSE
            /\ UNCHANGED <<messages, transcript, liveTranscript, isThinking,
                            sends>>
    /\ UNCHANGED <<sessionType, createReturnsId, isListening, isSpeaking,
                   isConnected, audioRecorder, isEndingInterview, speechRate,
                   recorders, recognizing, results, synth, sessionStored,
                   setups, startTimers, startFetches, introTimers, ends,
                   voiceTests, onEndLog, feedbackRequests, opsUsed>>

\* transcribeAudio rejected (lines 362-366)
TranscribeFail(i) ==
    /\ transcribing' = RemoveAt(transcribing, i)
    /\ isLoading' = FALSE
    /\ UNCHANGED <<sessionType, createReturnsId, messages, isListening,
                   userInput, isThinking, isSpeaking, isConnected, transcript,
                   audioRecorder, isEndingInterview, liveTranscript,
                   speechRate, recorders, recognizing, results, synth,
                   sessionStored, setups, startTimers, startFetches,
                   introTimers, sends, ends, voiceTests, onEndLog,
                   feedbackRequests, opsUsed>>

\* ---------------------------- reply and narration (lines 580-649, 426-478)
\* generateInterviewResponse resolved (lines 586-634): the reply is appended
\* and the 500 ms narration timer is set.
ReplyArrives(i) ==
    /\ sends[i].phase = "reply"
    /\ messages' = Append(messages, ReplyMessage)
    /\ isThinking' = FALSE
    /\ isLoading' = FALSE
    /\ sends' = [sends EXCEPT ![i].phase = "timer"]
    /\ UNCHANGED <<sessionType, createReturnsId, isListening, userInput,
                   isSpeaking, isConnected, transcript, audioRecorder,
                   isEndingInterview, liveTranscript, speechRate, recorders,
                   recognizing, results, synth, sessionStored, setups,
                   startTimers, startFetches, introTimers, transcribing, ends,
                   voiceTests, onEndLog, feedbackRequests, opsUsed>>

\* a /api/save-message request of a handleSendMessage call settles:
\* resolved (ok), or rejected, which is only logged (lines 521-534, 600-613).
\* The request is not awaited and nothing reads its result.
SaveMessageSettles(i, ok) ==
    /\ SavesMessages(sends[i].sid)
    /\ UNCHANGED vars

\* a catch block that leaves the thinking indicator on
ReplyFailsKeepsThinking(i) ==
    /\ sends[i].phase = "reply"
    /\ messages' = Append(messages, ErrorMessage)
    /\ isLoading' = FALSE
    /\ sends' = RemoveAt(sends, i)
    /\ UNCHANGED <<sessionType, createReturnsId, isListening, userInput,
                   isThinking, isSpeaking, isConnected, transcript,
                   audioRecorder, isEndingInterview, liveTranscript,
                   speechRate, recorders, recognizing, results, synth,
                   sessionStored, setups, startTimers, startFetches,
                   introTimers, transcribing, ends, voiceTests, onEndLog,
                   feedbackRequests, opsUsed>>

\* a catch block that narrates its apology as the try block narrates a reply
ReplyFailsNarrated(i) ==
    /\ sends[i].phase = "reply"
    /\ messages' = Append(messages, ErrorMessage)
    /\ isThinking' = FALSE
    /\ isLoading' = FALSE
    /\ sends' = [sends EXCEPT ![i].phase = "timer"]
    /\ UNCHANGED <<sessionType, createReturnsId, isListening, userInput,
                   isSpeaking, isConnected, transcript, audioRecorder,
                   isEndingInterview, liveTranscript, speechRate, recorders,
                   recognizing, results, synth, sessionStored, setups,
                   startTimers, startFetches, introTimers, transcribing, ends,
                   voiceTests, onEndLog, feedbackRequests, opsUsed>>

\* generateInterviewResponse rejected (lines 635-649)
ReplyFails(i) ==
    /\ sends[i].phase = "reply"
    /\ messages' = Append(messages, ErrorMessage)
    /\ isThinking' = FALSE
    /\ isLoading' = FALSE
    /\ sends' = RemoveAt(sends, i)
    /\ UNCHANGED <<sessionType, createReturnsId, isListening, userInput,
                   isSpeaking, isConnected, transcript, audioRecorder,
                   isEndingInterview, liveTranscript, speechRate, recorders,
                   recognizing, results, synth, sessionStored, setups,
                   startTimers, startFetches, introTimers, transcribing, ends,
                   voiceTests, onEndLog, feedbackRequests, opsUsed>>

\* playAudioResponse goes on past line 427: the reply text is not empty and
\* isConnected, as the handler's render saw it, is true
PlayAudioProceeds(th) == th.conn

\* The 500 ms timer fires (lines 625-634): speech in progress is cancelled,
\* and playAudioResponse runs up to the await of forceVoiceInit (lines
\* 426-436).
PlayTimerFires(i) ==
    /\ sends[i].phase = "timer"
    /\ synth' = <<>>
    /\ IF PlayAudioProceeds(sends[i])
       THEN /\ isSpeaking' = AfterCancel(TRUE)
            /\ sends' = [sends EXCEPT ![i].phase = "voiceInit"]
       ELSE /\ isSpeaking' = AfterCancel(isSpeaking)
            /\ sends' = RemoveAt(sends, i)
    /\ UNCHANGED <<sessionType, createReturnsId, messages, isListening,
                   userInput, isLoading, isThinking, isConnected, transcript,
                   audioRecorder, isEndingInterview, liveTranscript,
                   speechRate, recorders, recognizing, results, sessionStored,
                   setups, startTimers, startFetches, introTimers,
                   transcribing, ends, voiceTests, onEndLog, feedbackRequests,
                   opsUsed>>

\* forceVoiceInit resolved: cancel, then speak (lines 439-470)
PlaySpeaks(i) ==
    /\ sends[i].phase = "voiceInit"
    /\ synth' = <<Utterance("reply", sends[i].rate)>>
    /\ isSpeaking' = AfterCancel(isSpeaking)
    /\ sends' = RemoveAt(sends, i)
    /\ UNCHANGED <<sessionType, createReturnsId, messages, isListening,
                   userInput, isLoading, isThinking, isConnected, transcript,
                   audioRecorder, isEndingInterview, liveTranscript,
                   speechRate, recorders, recognizing, results, sessionStored,
                   setups, startTimers, startFetches, introTimers,
                   transcribing, ends, voiceTests, onEndLog, feedbackRequests,
                   opsUsed>>

\* forceVoiceInit rejected (lines 474-477)
PlayFails(i) ==
    /\ sends[i].phase = "voiceInit"
    /\ isSpeaking' = FALSE
    /\ sends' = RemoveAt(sends, i)
    /\ UNCHANGED <<sessionType, createReturnsId, messages, isListening,
                   userInput, isLoading, isThinking, isConnected, transcript,
                   audioRecorder, isEndingInterview, liveTranscript,
                   speechRate, recorders, recognizing, results, synth,
                   sessionStored, setups, startTimers, startFetches,
                   introTimers, transcribing, ends, voiceTests, onEndLog,
                   feedbackRequests, opsUsed>>

\* ----------------------------------- handleEndInterview (lines 659-756)
\* End buttons (lines 939-950 and 1103-1113)
EndButtonDisabled == isEndingInterview \/ ~isConnected

\* the early return of line 661
EndRefused == isEndingInterview

\* a handleEndInterview that leaves the ending flag as it was
EndingFlagOmitted == FALSE

\* the value line 662 writes to isEndingInterview
EndingFlag == TRUE

\* A click on an End button.  On a disabled button, or when the handler
\* returns early, nothing happens.  Otherwise the handler runs up to the
\* await of generateInterviewFeedback.
EndClick ==
    /\ isConnected
    /\ IF EndButtonDisabled \/ EndRefused
       THEN UNCHANGED <<isEndingInterview, synth, isSpeaking, recorders,
                        isLoading, transcribing, isThinking, ends,
                        feedbackRequests, opsUsed>>
       ELSE /\ opsUsed < MaxOps
            /\ opsUsed' = opsUsed + 1
            /\ isEndingInterview' = EndingFlag
            /\ synth' = <<>>
            /\ isSpeaking' = AfterCancel(isSpeaking)
            /\ RecorderStops(isLoading)
            /\ isThinking' = TRUE
            /\ ends' = Append(ends, [phase |-> "feedback", failed |-> FALSE,
                                     fb |-> ServerFeedback])
            /\ feedbackRequests' = feedbackRequests + 1
    /\ UNCHANGED <<sessionType, createReturnsId, messages, isListening,
                   userInput, isConnected, transcript, audioRecorder,
                   liveTranscript, speechRate, recognizing, results,
                   sessionStored, setups, startTimers, startFetches,
                   introTimers, sends, voiceTests, onEndLog>>

\* onEnd(fb) followed by the finally block (lines 713 / 751, 752-755).  The
\* log keeps, with the feedback, whether the feedback request had failed and
\* how the save-feedback request ended: "none" (not made), "ok", "failed".
Deliver(i, fb, failed, saved) ==
    /\ onEndLog' = Append(onEndLog, [feedback |-> fb, requestFailed |-> failed,
                                     saved |-> saved])
    /\ isThinking' = FALSE
    /\ isEndingInterview' = FALSE
    /\ ends' = RemoveAt(ends, i)

\* generateInterviewFeedback settled: resolved (ok) or rejected.  With an id
\* in sessionStorage the handler awaits /api/save-feedback before onEnd.
FeedbackSettles(i, ok) ==
    /\ ends[i].phase = "feedback"
    /\ LET fb == IF ok THEN ServerFeedback ELSE FallbackFeedback IN
       IF sessionStored # "none"
       THEN /\ ends' = [ends EXCEPT ![i] = [phase |-> "save", failed |-> ~ok,
                                            fb |-> fb]]
            /\ UNCHANGED <<onEndLog, isThinking, isEndingInterview>>
       ELSE Deliver(i, fb, ~ok, "none")
    /\ UNCHANGED <<sessionType, createReturnsId, messages, isListening,
                   userInput, isLoading, isSpeaking, isConnected, transcript,
                   audioRecorder, liveTranscript, speechRate, recorders,
                   recognizing, results, synth, sessionStored, setups,
                   startTimers, startFetches, introTimers, transcribing,
                   sends, voiceTests, feedbackRequests, opsUsed>>

\* a handleEndInterview that stops when /api/save-feedback fails
SaveSettlesStopsOnFailure(i, ok) ==
    /\ ends[i].phase = "save"
    /\ IF ok
       THEN Deliver(i, ends[i].fb, ends[i].failed, "ok")
       ELSE /\ ends' = RemoveAt(ends, i)
            /\ UNCHANGED <<onEndLog, isThinking, isEndingInterview>>
    /\ UNCHANGED <<sessionType, createReturnsId, messages, isListening,
                   userInput, isLoading, isSpeaking, isConnected, transcript,
                   audioRecorder, liveTranscript, speechRate, recorders,
                   recognizing, results, synth, sessionStored, setups,
                   startTimers, startFetches, introTimers, transcribing,
                   sends, voiceTests, feedbackRequests, opsUsed>>

\* /api/save-feedback settled: resolved (ok), or rejected and caught (lines
\* 697-711, 734-749)
SaveSettles(i, ok) ==
    /\ ends[i].phase = "save"
    /\ Deliver(i, ends[i].fb, ends[i].failed, IF ok THEN "ok" ELSE "failed")
    /\ UNCHANGED <<sessionType, createReturnsId, messages, isListening,
                   userInput, isLoading, isSpeaking, isConnected, transcript,
                   audioRecorder, liveTranscript, speechRate, recorders,
                   recognizing, results, synth, sessionStored, setups,
                   startTimers, startFetches, introTimers, transcribing,
                   sends, voiceTests, feedbackRequests, opsUsed>>

\* ------------------------------------------------------------------ Next
Next ==
    \/ ConnectClick
    \/ \E i \in 1..Len(setups) : SetupResolve(i)
    \/ \E i \in 1..Len(setups) : SetupReject(i)
    \/ StartInterviewBegin
    \/ \E i \in 1..Len(startFetches), o \in {"id", "noid"} :
          StartFetchSettle(i, o)
    \/ IntroSpeak
    \/ IntroSpeakFail
    \/ UtteranceEnd
    \/ StopSpeaking
    \/ TestVoiceClick
    \/ \E i \in 1..Len(voiceTests) : TestVoiceSpeak(i)
    \/ \E i \in 1..Len(voiceTests) : TestVoiceFail(i)
    \/ StartListeningClick
    \/ StopListeningClick
    \/ \E final \in BOOLEAN : LiveResult(final)
    \/ \E t \in TypedTexts : TypeInput(t)
    \/ KeySubmit
    \/ \E i \in 1..Len(transcribing), t \in RecTexts : TranscribeSettle(i, t)
    \/ \E i \in 1..Len(transcribing) : TranscribeFail(i)
    \/ \E i \in 1..Len(sends) : ReplyArrives(i)
    \/ \E i \in 1..Len(sends) : ReplyFails(i)
    \/ \E i \in 1..Len(sends) : PlayTimerFires(i)
    \/ \E i \in 1..Len(sends) : PlaySpeaks(i)
    \/ \E i \in 1..Len(sends) : PlayFails(i)
    \/ EndClick
    \/ \E i \in 1..Len(ends), ok \in BOOLEAN : FeedbackSettles(i, ok)
    \/ \E i \in 1..Len(ends), ok \in BOOLEAN : SaveSettles(i, ok)
    \/ \E i \in 1..Len(sends), ok \in BOOLEAN : SaveMessageSettles(i, ok)

Spec == Init /\ [][Next]_vars

\* generateInterviewResponse settles, one way or the other
ReplySettles == \E i \in 1..Len(sends) : ReplyArrives(i) \/ ReplyFails(i)

\* Every reply request eventually settles; with one operation less than
\* MaxOps.
SpecFair ==
    /\ Start({DefaultSessionType}, {FALSE}, 1)
    /\ [][Next]_vars
    /\ WF_vars(ReplySettles)

\* Every session type, with one operation less than MaxOps.
InitTypes == Start(SessionTypes, {FALSE}, 1)

SpecTypes == InitTypes /\ [][Next]_vars

\* A create-interview service that may answer with an id, with one operation
\* less than MaxOps.
InitIds == Start({DefaultSessionType}, BOOLEAN, 1)

SpecIds == InitIds /\ [][Next]_vars

\* Sessions in which the user also changes the speech rate, with one
\* operation less than MaxOps.
NextRate ==
    \/ Next
    \/ \E r \in SpeechRates : SpeechRateChange(r)

SpecRate == Start({DefaultSessionType}, {FALSE}, 1) /\ [][NextRate]_vars

\* the numbers of exchanges (user message, reply) an established session
\* starts from: none, and two that bring the history of the next submit to
\* the cap of the window and past it
PastExchanges == {0, 6, 7}

\* the conversation after n exchanges
RECURSIVE Conversation(_)
Conversation(n) ==
    IF n = 0 THEN <<WelcomeMessage, IntroMessage>>
    ELSE Conversation(n - 1) \o <<Msg("user", <<"t">>), ReplyMessage>>

\* An established session: connected with a microphone, the introduction
\* made and narrated, a number of exchanges completed, nothing pending, and
\* one operation less than MaxOps.
InitEstablished ==
    /\ sessionType = DefaultSessionType
    /\ createReturnsId = FALSE
    /\ messages \in {Conversation(n) : n \in PastExchanges}
    /\ isListening = FALSE
    /\ userInput = <<>>
    /\ isLoading = FALSE
    /\ isThinking = FALSE
    /\ isSpeaking = FALSE
    /\ isConnected = TRUE
    /\ transcript = <<>>
    /\ audioRecorder = 1
    /\ isEndingInterview = FALSE
    /\ liveTranscript = <<>>
    /\ speechRate = DefaultSpeechRate
    /\ recorders = <<[state |-> "inactive",
                      closure |-> [msgs |-> <<WelcomeMessage>>, live |-> <<>>,
                                   input |-> <<>>, conn |-> FALSE,
                                   rate |-> DefaultSpeechRate],
                      stream |-> "live"]>>
    /\ recognizing = FALSE
    /\ results = <<>>
    /\ synth = <<>>
    /\ sessionStored = "local"
    /\ setups = <<>>
    /\ startTimers = <<>>
    /\ startFetches = <<>>
    /\ introTimers = <<>>
    /\ transcribing = <<>>
    /\ sends = <<>>
    /\ ends = <<>>
    /\ voiceTests = <<>>
    /\ onEndLog = <<>>
    /\ feedbackRequests = 0
    /\ opsUsed = 1

\* the steps of an established session
NextEstablished ==
    \/ UtteranceEnd
    \/ StopSpeaking
    \/ StartListeningClick
    \/ StopListeningClick
    \/ \E final \in BOOLEAN : LiveResult(final)
    \/ \E t \in TypedTexts : TypeInput(t)
    \/ KeySubmit
    \/ \E i \in 1..Len(transcribing), t \in RecTexts : TranscribeSettle(i, t)
    \/ \E i \in 1..Len(transcribing) : TranscribeFail(i)
    \/ \E i \in 1..Len(sends) : ReplyArrives(i)
    \/ \E i \in 1..Len(sends) : ReplyFails(i)
    \/ \E i \in 1..Len(sends) : PlayTimerFires(i)
    \/ \E i \in 1..Len(sends) : PlaySpeaks(i)
    \/ \E i \in 1..Len(sends) : PlayFails(i)
    \/ EndClick
    \/ \E i \in 1..Len(ends), ok \in BOOLEAN : FeedbackSettles(i, ok)
    \/ \E i \in 1..Len(ends), ok \in BOOLEAN : SaveSettles(i, ok)
    \/ \E i \in 1..Len(sends), ok \in BOOLEAN : SaveMessageSettles(i, ok)

SpecEstablished == InitEstablished /\ [][NextEstablished]_vars

\* ----------------------------------------------------------------- claims
\* reply requests awaiting generateInterviewResponse
RepliesInFlight == Cardinality({i \in 1..Len(sends) : sends[i].phase = "reply"})

\* replies whose narration is scheduled or being prepared
NarrationsPending ==
    Cardinality({i \in 1..Len(sends) : sends[i].phase \in {"timer", "voiceInit"}})

\* narration timers set and not yet fired
NarrationTimers == Cardinality({i \in 1..Len(sends) : sends[i].phase = "timer"})

\* C1: while an end request is awaiting its feedback, a further trigger of
\* handleEndInterview starts nothing: at most one end request is in flight,
\* the ending flag is set while it is, and every feedback request made
\* accounts for exactly one end in flight or one onEnd call.
C1_RepeatedEndSingleRequest ==
    /\ Len(ends) <= 1
    /\ ends # <<>> => isEndingInterview /\ EndButtonDisabled /\ EndRefused
    /\ feedbackRequests = Len(ends) + Len(onEndLog)

\* C1 witness: an end request is awaiting feedback in a connected session, so
\* a click on End is a repeated trigger, and it has changed nothing.
C1_Witness ==
    /\ isConnected
    /\ Len(ends) = 1
    /\ ends[1].phase = "feedback"
    /\ feedbackRequests = 1
    /\ onEndLog = <<>>

\* C2 (as claimed): over the lifetime of a mounted session onEnd is invoked
\* at most once.
C2_OnEndAtMostOnce == Len(onEndLog) <= 1

\* the canned feedback: non-empty summary naming the session type and the
\* topic, at least one strength and one improvement
IsCanned(fb) ==
    /\ fb.summary # <<>>
    /\ fb.summary[2] = sessionType
    /\ SubSeq(fb.summary, Len(fb.summary) - Len(Topic), Len(fb.summary) - 1) = Topic
    /\ Len(fb.strengths) >= 1
    /\ Len(fb.improvements) >= 1
    /\ \A k \in 1..Len(fb.strengths) : fb.strengths[k] # <<>>
    /\ \A k \in 1..Len(fb.improvements) : fb.improvements[k] # <<>>

\* C3: an end whose feedback request failed still reaches onEnd, and with
\* the canned feedback: every onEnd call after a failed request, and every
\* failed end still awaiting save-feedback, carries the canned feedback, and
\* no end request disappears without its onEnd call.
C3_FailedFeedbackStillEnds ==
    /\ \A k \in 1..Len(onEndLog) :
          onEndLog[k].requestFailed => IsCanned(onEndLog[k].feedback)
    /\ \A k \in 1..Len(ends) :
          ends[k].failed => ends[k].phase = "save" /\ IsCanned(ends[k].fb)
    /\ feedbackRequests = Len(ends) + Len(onEndLog)

\* C3 witness: onEnd was invoked after a failed feedback request.
C3_Witness ==
    \E k \in 1..Len(onEndLog) : onEndLog[k].requestFailed

\* C4 (as claimed): while isSpeaking, no step appends a user message or
\* starts a reply request, and no step starts a capture.
C4_NoSubmitOrCaptureWhileSpeaking ==
    [][isSpeaking =>
          /\ UserCount(messages') = UserCount(messages)
          /\ Len(sends') <= Len(sends)
          /\ isListening' => isListening]_vars

\* C5 (as claimed): capture and narration never overlap.
C5_NeverListeningAndSpeaking == ~(isListening /\ isSpeaking)

\* C6 (as claimed): at most one reply request is in flight.
C6_OneReplyInFlight == RepliesInFlight <= 1

\* C7 (as claimed): a user message appended while the live transcript is
\* non-empty has the trimmed live transcript as its content.
C7_LiveTranscriptWins ==
    [][(UserCount(messages') > UserCount(messages) /\ Truthy(liveTranscript)) =>
          messages'[Len(messages')].content = Trim(liveTranscript)]_vars

\* C8: a handleSendMessage call whose chosen text trims to empty changes
\* nothing: from the keyboard the whole step leaves the state as it is; from
\* the recorder's stop callback the state stays as the callback set it before
\* the call (userInput and transcript hold the transcription, isLoading is
\* false), no message is appended and no reply request is started.
C8_BlankSubmitIsNoOp ==
    [][/\ (KeySubmit /\ Trim(TextToSend(Closure, <<>>)) = <<>>) =>
             UNCHANGED <<messages, userInput, transcript, liveTranscript,
                         isLoading, isThinking, isSpeaking, sends>>
       /\ \A i \in 1..Len(transcribing), t \in RecTexts :
             (/\ TranscribeSettle(i, t)
              /\ Truthy(t)
              /\ Trim(TextToSend(transcribing[i], t)) = <<>>) =>
                /\ userInput' = t
                /\ transcript' = t
                /\ ~isLoading'
                /\ UNCHANGED <<messages, liveTranscript, isThinking,
                               isSpeaking, sends>>]_vars

\* C8 witness: the recorder's stop callback has submitted a whitespace-only
\* transcription in a connected session: the state is as the callback left
\* it, with the transcription in userInput and transcript and no request.
C8_Witness ==
    /\ isConnected
    /\ transcript # <<>>
    /\ Trim(transcript) = <<>>
    /\ userInput = transcript
    /\ ~isLoading
    /\ sends = <<>>

\* C9 (as claimed): the step that appends the apology also starts its
\* narration, as a successful reply does.
C9_ApologyIsNarrated ==
    [][ApologyCount(messages') > ApologyCount(messages) =>
          NarrationsPending' = NarrationsPending + 1]_vars

\* C9 (amended): a failed reply request appends exactly one assistant
\* message, the apology, and clears isThinking and isLoading; no narration is
\* started for it: isSpeaking, the speech queue and the pending narrations
\* are as before.
C9_ApologyNotNarrated ==
    [][ApologyCount(messages') > ApologyCount(messages) =>
          /\ messages' = Append(messages, ErrorMessage)
          /\ ~isThinking'
          /\ ~isLoading'
          /\ RepliesInFlight' = RepliesInFlight - 1
          /\ NarrationsPending' = NarrationsPending
          /\ UNCHANGED <<isSpeaking, synth>>]_vars

\* C9 witness: a reply request has failed and its apology is in the messages.
C9_Witness == ApologyCount(messages) >= 1

\* replies whose utterance is being prepared (awaiting forceVoiceInit)
NarrationsPreparing ==
    Cardinality({i \in 1..Len(sends) : sends[i].phase = "voiceInit"})

\* C10 (as claimed): when the narration timer of a successful reply fires,
\* the reply is narrated: playAudioResponse sets isSpeaking and goes on to
\* prepare the utterance, for typed submits and for submits from the
\* recorder's stop callback alike.
C10_ReplyIsNarrated ==
    [][NarrationTimers' < NarrationTimers =>
          NarrationsPreparing' = NarrationsPreparing + 1]_vars

\* C11: the controller never stays stuck awaiting a reply: whenever a reply
\* request is in flight, a state follows in which isThinking and isLoading
\* are both false, whether the request succeeds or fails.
C11_NeverStuckAwaitingReply ==
    (RepliesInFlight > 0) ~> (~isThinking /\ ~isLoading)

\* C11 witness: a submit was accepted, its reply request has settled, and
\* isThinking and isLoading are both false.
C11_Witness ==
    /\ UserCount(messages) >= 1
    /\ RepliesInFlight = 0
    /\ ~isThinking
    /\ ~isLoading

\* C12 (as claimed): ending is terminal: while an accepted end is in
\* progress no step appends a message, starts a reply request or begins a
\* narration.
C12_EndingIsTerminal ==
    [][ends # <<>> =>
          /\ messages' = messages
          /\ RepliesInFlight' <= RepliesInFlight
          /\ Len(synth') <= Len(synth)
          /\ isSpeaking' => isSpeaking]_vars

\* C13 (as claimed): the step in which handleEndInterview is accepted
\* leaves no speech queued or playing, no recorder recording, the streaming
\* recognizer stopped and isListening false.
C13_EndStopsSpeechAndCapture ==
    [][Len(ends') > Len(ends) =>
          /\ synth' = <<>>
          /\ \A k \in 1..Len(recorders') : recorders'[k].state # "recording"
          /\ ~recognizing'
          /\ ~isListening']_vars

\* C14: a failed microphone acquisition still connects the session and
\* schedules the introduction, and leaves audioRecorder as it was (null); a
\* session without a recorder never captures (not listening, recognizer not
\* started, nothing recording), and a typed submit of non-blank text in it is
\* accepted: the trimmed text is appended and a reply request is started.
C14_MicFailureTextOnly ==
    /\ [](audioRecorder = 0 =>
            /\ ~isListening
            /\ ~recognizing
            /\ \A k \in 1..Len(recorders) : recorders[k].state # "recording")
    /\ [][/\ \A i \in 1..Len(setups) :
                SetupReject(i) =>
                   /\ isConnected'
                   /\ Len(startTimers') = Len(startTimers) + 1
                   /\ audioRecorder' = audioRecorder
          /\ (KeySubmit /\ audioRecorder = 0 /\ Trim(userInput) # <<>>) =>
                /\ messages' = Append(messages, Msg("user", Trim(userInput)))
                /\ RepliesInFlight' = RepliesInFlight + 1]_vars

\* C14 witness: a connected session without a recorder in which a typed
\* submit has been accepted.
C14_Witness ==
    /\ isConnected
    /\ audioRecorder = 0
    /\ recorders = <<>>
    /\ UserCount(messages) >= 1

\* introduction messages in a list of messages
IntroCount(ms) == Cardinality({i \in 1..Len(ms) : ms[i] = IntroMessage})

\* C15 (as claimed): whatever the sequence of Connect clicks, at most one
\* introduction message is appended and at most one run of startInterview
\* is pending or under way.
C15_OneIntroduction ==
    /\ IntroCount(messages) <= 1
    /\ Len(startTimers) + Len(startFetches) + Len(introTimers) <= 1

\* C16 (as claimed): no handler waits for a persistence response before
\* going on with the conversation: no run of startInterview is suspended on
\* /api/create-interview with its narration not yet scheduled, and no run
\* of handleEndInterview is suspended on /api/save-feedback with onEnd not
\* yet invoked.
C16_PersistenceNeverAwaited ==
    /\ startFetches = <<>>
    /\ \A i \in 1..Len(ends) : ends[i].phase # "save"

\* C17: a persistence call changes the conversation in the same way whether
\* it succeeds or fails.  When /api/create-interview settles, with an id or
\* without, the messages, the turn flags and the drafts stay as they are
\* except that isLoading is cleared and the introduction timer is set; when
\* /api/save-feedback settles, resolved or rejected, onEnd is invoked with
\* the feedback obtained before the call, and isThinking and the ending
\* flag are cleared.
C17_PersistenceFailureHarmless ==
    [][/\ \A i \in 1..Len(startFetches), o \in {"id", "noid"} :
             StartFetchSettle(i, o) =>
                /\ ~isLoading'
                /\ Len(introTimers') = Len(introTimers) + 1
                /\ UNCHANGED <<messages, isListening, isThinking, isSpeaking,
                               isConnected, isEndingInterview, userInput,
                               transcript, liveTranscript, sends, onEndLog>>
       /\ \A i \in 1..Len(ends), ok \in BOOLEAN :
             SaveSettles(i, ok) =>
                /\ Len(onEndLog') = Len(onEndLog) + 1
                /\ onEndLog'[Len(onEndLog')].feedback = ends[i].fb
                /\ onEndLog'[Len(onEndLog')].requestFailed = ends[i].failed
                /\ ~isThinking'
                /\ ~isEndingInterview'
                /\ UNCHANGED <<messages, isListening, isLoading, isSpeaking,
                               isConnected, userInput, transcript,
                               liveTranscript, sends>>]_vars

\* C17 witness: onEnd has been invoked after a save-feedback request that
\* failed, in a session whose create-interview request got no id.
C17_Witness ==
    /\ sessionStored = "local"
    /\ \E k \in 1..Len(onEndLog) : onEndLog[k].saved = "failed"

\* C18 (as claimed): when every create-interview request has settled and
\* none supplied an id, no persistence request is made: no handleSendMessage
\* call makes /api/save-message requests and no handleEndInterview call is
\* awaiting /api/save-feedback.
C18_NoSaveWithoutServerId ==
    (sessionStored # "server" /\ startFetches = <<>>) =>
       /\ \A i \in 1..Len(sends) : ~SavesMessages(sends[i].sid)
       /\ \A i \in 1..Len(ends) : ends[i].phase # "save"

\* C19 (as claimed): when the transcription of a stopped capture comes back
\* empty or fails while the live transcript is non-empty, that step submits
\* a user message carrying the trimmed live transcript.
C19_LiveTranscriptSubmittedAnyway ==
    [][\A i \in 1..Len(transcribing) :
          (/\ TranscribeSettle(i, <<>>) \/ TranscribeFail(i)
           /\ Truthy(liveTranscript)) =>
             /\ UserCount(messages') = UserCount(messages) + 1
             /\ messages'[Len(messages')].content = Trim(liveTranscript)]_vars

\* C20 (as claimed): after every result event the live transcript begins
\* with the final results delivered so far in this capture, in order, and
\* after a final result it is exactly their concatenation.
C20_LiveTranscriptAccumulates ==
    [][(results' # results /\ results' # <<>>) =>
          /\ Len(Collect(results', 1, TRUE)) <= Len(liveTranscript')
          /\ SubSeq(liveTranscript', 1, Len(Collect(results', 1, TRUE)))
                = Collect(results', 1, TRUE)
          /\ results'[Len(results')].isFinal =>
                liveTranscript' = Collect(results', 1, TRUE)]_vars

\* C21 (as claimed): speech output is never queued: at most one utterance is
\* queued or playing in the speech engine.
C21_OneUtteranceAtMost == Len(synth) <= 1

\* C22: a stop-speaking click while isSpeaking leaves the speech engine
\* empty and isSpeaking false in that same step, whether or not an utterance
\* had reached the engine; while isSpeaking is false it changes no state.
C22_StopSpeakingImmediate ==
    [][StopSpeaking =>
          IF isSpeaking THEN synth' = <<>> /\ ~isSpeaking'
          ELSE UNCHANGED vars]_vars

\* C22 witness: before connecting, one voice test was started and is still
\* awaiting its voices, so no utterance exists whose end event could clear
\* the flag, and isSpeaking is false: stopSpeaking has cleared it.
C22_Witness ==
    /\ ~isConnected
    /\ opsUsed = 1
    /\ Len(voiceTests) = 1
    /\ synth = <<>>
    /\ ~isSpeaking

\* the microphone streams obtained from getUserMedia that are still live
StreamsHeld ==
    Cardinality({k \in 1..Len(recorders) : recorders[k].stream = "live"})

\* C23 (as claimed): once the session has ended (onEnd has been invoked) no
\* microphone stream obtained on connect is still held.
C23_MicrophoneReleasedAfterEnd == onEndLog # <<>> => StreamsHeld = 0

C25_MessagesAppendOnly ==
    [][/\ Len(messages') >= Len(messages)
       /\ SubSeq(messages', 1, Len(messages)) = messages]_vars

\* C25 witness: after connect, a submit, a failed reply and a completed end
\* the welcome message is still first, followed by the introduction, the
\* user message and the apology.
C25_Witness ==
    /\ Len(messages) = 4
    /\ messages[1] = WelcomeMessage
    /\ messages[2] = IntroMessage
    /\ messages[3].role = "user"
    /\ messages[4] = ErrorMessage
    /\ onEndLog # <<>>

\* C26 (as claimed): every utterance started (introduction, voice test,
\* reply) has the speech rate selected at the moment it is started.
C26_UtteranceAtSelectedRate ==
    [][(\/ IntroSpeak
        \/ \E i \in 1..Len(voiceTests) : TestVoiceSpeak(i)
        \/ \E i \in 1..Len(sends) : PlaySpeaks(i)) =>
          synth'[Len(synth')].rate = speechRate']_vars

\* C27 (as claimed): isSpeaking never under-reports the speech engine:
\* whenever an utterance is queued or playing, isSpeaking is true.
C27_IsSpeakingNeverUnderReports == synth # <<>> => isSpeaking

\* C28 (as claimed): the history a submit passes to the reply generator is
\* the whole conversation so far, in order, ending with the newly submitted
\* user message: it equals the messages as they are after the submit.
C28_HistoryIsWholeConversation ==
    [][Len(sends') > Len(sends) =>
          sends'[Len(sends')].history = messages']_vars

\* C29: every user message in the conversation has non-empty content that
\* neither begins nor ends with whitespace.
C29_UserMessagesTrimmed ==
    \A i \in 1..Len(messages) :
       messages[i].role = "user" =>
          /\ messages[i].content # <<>>
          /\ Head(messages[i].content) # " "
          /\ messages[i].content[Len(messages[i].content)] # " "

\* C29 witness: the conversation holds a user message taken from a live
\* transcript that ended with whitespace, and one taken from a recorded
\* transcription or typed input that had whitespace around it.
C29_Witness ==
    /\ \E i \in 1..Len(messages) : messages[i] = Msg("user", <<"l">>)
    /\ \E i \in 1..Len(messages) :
          messages[i] \in {Msg("user", <<"r">>), Msg("user", <<"t">>)}

\* C30: the step in which a user message is appended leaves userInput,
\* transcript and liveTranscript empty, so a further submit from the
\* resulting render, without new text, is refused.
C30_AcceptedSubmitClearsDrafts ==
    [][UserCount(messages') > UserCount(messages) =>
          /\ userInput' = <<>>
          /\ transcript' = <<>>
          /\ liveTranscript' = <<>>]_vars

\* C30 witness: a submit has just been accepted that took its text from a
\* non-empty live transcript: its reply is awaited, its message is the last
\* one, and the three drafts are empty.
C30_Witness ==
    /\ messages[Len(messages)] = Msg("user", <<"l">>)
    /\ RepliesInFlight = 1
    /\ userInput = <<>>
    /\ transcript = <<>>
    /\ liveTranscript = <<>>

====
